---- MODULE Spec2Model ----
(***************************************************************************)
(* Model of yg (daylight55/yg): the loader and the choice resolver of      *)
(* package config, the collection of the answers in package cmd and        *)
(* package generator, and the template determiner and the combination      *)
(* expander of package generator.                                          *)
(*                                                                         *)
(* Strings that the program parses are sequences of tokens; the token Sep  *)
(* is the two-character separator ": " that strings.Contains and           *)
(* strings.SplitN look for.  Question keys are never parsed and are plain  *)
(* strings.  A Go map is a function with a finite domain.  A value of      *)
(* type interface{} is a record with a kind field.                         *)
(***************************************************************************)
EXTENDS Integers, Sequences, FiniteSets, TLC

VARIABLES
    config,               \* g.config.Questions
    answers,              \* g.answers
    multiValueQuestions,  \* the argument of generateCombinations
    keys,                 \* the order in which the last evaluation ranged over the map
    combinations,         \* the result of the last evaluation of generateCombinations
    prevCombinations,     \* the result of the evaluation before it
    evals,                \* number of evaluations of generateCombinations so far
    question,             \* the receiver of GetChoices
    choices,              \* the result of GetChoices: [err, val]
    templateType,         \* the first result of determineTemplateAndMultiValues
    err,                  \* the error result of the last call ("" is nil)
    files,                \* what os.ReadFile finds at each path LoadConfig tries
    flags,                \* the command line: [answer (--answer), yes (--yes)]
    options,              \* generator.Options: [Answers, SkipPrompt]
    asked,                \* entries of the question order that RunWithOptions is past
    tmpl,                 \* the receiver of Template.Render
    rendered,             \* the result of Template.Render: [err, Files]
    previewed,            \* what generatePreview has shown and returned
    written,              \* the files that generateFiles has written
    pendingCombinations,  \* generateFiles: the combinations not yet rendered
    queue,                \* generateFiles: the rendered files not yet written
    prompted,             \* the questions prompted so far, each with the answers it saw
    confirms,             \* what each Confirm prompt so far has returned
    canceled,             \* the signal goroutine has called cancel()
    pc

vars == <<config, answers, multiValueQuestions, keys, combinations,
          prevCombinations, evals, question, choices, templateType, err,
          files, flags, options, asked, tmpl, rendered, previewed, written,
          pendingCombinations, queue, prompted, confirms, canceled, pc>>

\* The variables of the expander, of the resolver, of the loader and of a run.
expanderVars == <<keys, combinations, prevCombinations, evals>>
resolverVars == <<question, choices>>
loaderVars == <<files>>
runVars == <<flags, options, asked>>
renderVars == <<tmpl, rendered>>
outputVars == <<previewed, written, pendingCombinations, queue>>
historyVars == <<prompted, confirms, canceled>>

\* Longest multi-select answer list that is enumerated.
MaxSel == 2
\* Number of evaluations of generateCombinations in one behaviour
\* (generatePreview and generateFiles each evaluate it once).
MaxEvals == 2

Sep == ": "

(***************************************************************************)
(* Values and maps                                                         *)
(***************************************************************************)
Str(s) == [kind |-> "string", val |-> s]
StrList(l) == [kind |-> "list", val |-> l]
IntVal(n) == [kind |-> "int", val |-> n]

EmptyMap == [k \in {} |-> <<>>]
Put(m, k, v) == [x \in (DOMAIN m) \cup {k} |-> IF x = k THEN v ELSE m[x]]
\* for k, v := range src { dst[k] = v }
PutAll(dst, src) == [x \in (DOMAIN dst) \cup (DOMAIN src) |->
                        IF x \in DOMAIN src THEN src[x] ELSE dst[x]]
\* for k := range src { delete(dst, k) }
DeleteAll(dst, src) == [x \in (DOMAIN dst) \ (DOMAIN src) |-> dst[x]]

ToSet(s) == {s[i] : i \in 1..Len(s)}
SeqsUpTo(S, n) == UNION {[1..m -> S] : m \in 0..n}
\* The orders in which a range statement can visit the keys of a map.
Orders(S) == {s \in [1..Cardinality(S) -> S] :
                 \A i, j \in 1..Cardinality(S) : i # j => s[i] # s[j]}

\* fmt.Sprintf("%v", v)
Sprintf(v) == IF v.kind = "int" THEN <<ToString(v.val)>> ELSE v.val

\* strings.Contains(s, ": ")
Contains(s) == \E i \in 1..Len(s) : s[i] = Sep
FirstSep(s) == CHOOSE i \in 1..Len(s) : s[i] = Sep /\ \A j \in 1..(i - 1) : s[j] # Sep
\* strings.SplitN(s, ": ", 2)
SplitN(s) == IF Contains(s)
             THEN <<SubSeq(s, 1, FirstSep(s) - 1), SubSeq(s, FirstSep(s) + 1, Len(s))>>
             ELSE <<s>>

(***************************************************************************)
(* package config: the question graph                                      *)
(***************************************************************************)
\* Question.Type and QuestionType.Dynamic are pointers: present = not nil.
NoDynamic == [present |-> FALSE, DependencyQuestions |-> <<>>]
Dynamic(deps) == [present |-> TRUE, DependencyQuestions |-> deps]
NoType == [present |-> FALSE, Dynamic |-> NoDynamic, Interactive |-> FALSE, Multiple |-> FALSE]
QuestionType(dyn, inter, mult) ==
    [present |-> TRUE, Dynamic |-> dyn, Interactive |-> inter, Multiple |-> mult]

\* Question.Choices after yaml.Unmarshal: []interface{} or map[string]interface{}
ChoiceList(items) == [kind |-> "list", items |-> items]
ChoiceMap(entries) == [kind |-> "map", entries |-> entries]

Question(type, ch) == [Type |-> type, Choices |-> ch]

IsMultiple(q) == q.Type.present /\ q.Type.Multiple

GetQuestions(q) == IF Cardinality(DOMAIN q.Definitions) > 0 THEN q.Definitions ELSE q.DirectMap

(***************************************************************************)
(* package config: loading a configuration                                 *)
(***************************************************************************)
\* The Questions struct as LoadConfig handles it: DefinitionsNil and
\* DirectMapNil say whether the map of that name is nil (len is 0 either way).
Questions(order, tq, defsNil, defs, directNil, direct) ==
    [Order |-> order, TemplateQuestion |-> tq,
     Definitions |-> defs, DefinitionsNil |-> defsNil,
     DirectMap |-> direct, DirectMapNil |-> directNil]

\* What a path holds: no file, a file that yaml.Unmarshal rejects, or a
\* document.  A document has the keys of "questions": order, template_question,
\* definitions (hasDefinitions: the key is there), and the other keys (inline).
NoFile == [kind |-> "none"]
BadFile == [kind |-> "invalid"]
Document(order, tq, hasDefs, defs, inline) ==
    [kind |-> "yaml", order |-> order, template_question |-> tq,
     hasDefinitions |-> hasDefs, definitions |-> defs, inline |-> inline]

\* yaml.Unmarshal(data, &config): a map field is made when its key is there;
\* the inline map is made when the first key of no other field is met.
Unmarshal(doc) ==
    Questions(doc.order, doc.template_question,
              ~doc.hasDefinitions, doc.definitions,
              DOMAIN doc.inline = {}, doc.inline)

\* Mutant of normalize: the direct map is copied but not cleared.
normalize_KeepsDirectMap(q, ks) ==
    LET moved == IF q.DefinitionsNil /\ ~q.DirectMapNil
                 THEN Questions(q.Order, q.TemplateQuestion, FALSE, q.DirectMap,
                                q.DirectMapNil, q.DirectMap)
                 ELSE q
    IN  IF ~moved.DefinitionsNil /\ Len(moved.Order) = 0
        THEN [moved EXCEPT !.Order = SelectSeq(ks, LAMBDA k : k \in DOMAIN moved.Definitions)]
        ELSE moved

\* ks is the order in which "for key := range q.Definitions" visits the map.
normalize(q, ks) ==
    LET moved == IF q.DefinitionsNil /\ ~q.DirectMapNil
                 THEN Questions(q.Order, q.TemplateQuestion, FALSE, q.DirectMap,
                                TRUE, EmptyMap)
                 ELSE q
    IN  IF ~moved.DefinitionsNil /\ Len(moved.Order) = 0
        THEN [moved EXCEPT !.Order = SelectSeq(ks, LAMBDA k : k \in DOMAIN moved.Definitions)]
        ELSE moved

\* The zero Questions that stands for the nil *Config of a failed load.
NoQuestions == Questions(<<>>, "", TRUE, EmptyMap, TRUE, EmptyMap)

\* The loop over the paths, from the i-th on: (config, error).
RECURSIVE LoadFrom(_, _, _)
LoadFrom(fs, i, ks) ==
    IF i > Len(fs)
    THEN [config |-> NoQuestions,
          err |-> IF Len(fs) = 1 THEN "failed to read config file"
                  ELSE "no config file found in default locations"]
    ELSE IF fs[i].kind = "none" THEN LoadFrom(fs, i + 1, ks)
    ELSE IF fs[i].kind = "invalid"
    THEN [config |-> NoQuestions, err |-> "failed to parse config file"]
    ELSE [config |-> normalize(Unmarshal(fs[i]), ks), err |-> ""]

\* fs has one entry when configPath is given and one per default path otherwise.
LoadConfig(fs, ks) == LoadFrom(fs, 1, ks)

(***************************************************************************)
(* package config: the choice resolver                                     *)
(***************************************************************************)
\* A result ([]string, error); err.msg = "" is a nil error.  A run-time panic
\* is the result Panic.
NoErr == [msg |-> "", dep |-> "", value |-> <<>>]
Ok(val) == [err |-> NoErr, val |-> val]
\* Mutant of Err: the error carries no dependency and no value.
Err_NoContext(msg, dep, value) == [err |-> [msg |-> msg, dep |-> "", value |-> <<>>], val |-> <<>>]
Err(msg, dep, value) == [err |-> [msg |-> msg, dep |-> dep, value |-> value], val |-> <<>>]
Panic == Err("panic: index out of range", "", <<>>)

\* result[i] = fmt.Sprintf("%v", choice)
Stringified(items) == [i \in 1..Len(items) |-> Sprintf(items[i])]

\* The switch on the dynamic type of a dependency answer.
AnswerValues(answer) ==
    CASE answer.kind = "list" -> answer.val
      [] answer.kind = "string" -> <<answer.val>>
      [] answer.kind = "anylist" -> [i \in 1..Len(answer.val) |-> Sprintf(answer.val[i])]
      [] OTHER -> <<Sprintf(answer)>>

\* The keys of a map in the order one range statement visits them.
Restrict(order, S) == SelectSeq(order, LAMBDA k : k \in S)

\* Mutant of AppendChoices: the allChoices test is left out.
AppendChoices_NoDedup(result, items, i) ==
    result \o [j \in 1..(Len(items) - i + 1) |-> Sprintf(items[i + j - 1])]

\* for _, choice := range list { if !allChoices[choiceStr] { result = append(...) } }
\* allChoices holds exactly the elements of result.
RECURSIVE AppendChoices(_, _, _)
AppendChoices(result, items, i) ==
    IF i > Len(items) THEN result
    ELSE LET choiceStr == Sprintf(items[i]) IN
         AppendChoices(IF choiceStr \in ToSet(result) THEN result ELSE Append(result, choiceStr),
                       items, i + 1)

\* for _, subChoices := range nextValue { if choiceList, ok := subChoices.([]interface{}) ... }
RECURSIVE CollectNested(_, _, _, _)
CollectNested(result, entries, order, i) ==
    IF i > Len(order) THEN result
    ELSE LET subChoices == entries[order[i]] IN
         CollectNested(IF subChoices.kind = "list"
                       THEN AppendChoices(result, subChoices.items, 1)
                       ELSE result,
                       entries, order, i + 1)

\* The branch len(answerValues) > 1: the loop over the answer values.
\* ord[i] is the order in which the nested map of the i-th value is ranged over.
RECURSIVE CollectFromAll(_, _, _, _, _)
CollectFromAll(current, answerValues, ord, i, result) ==
    IF i > Len(answerValues) THEN Ok(result)
    ELSE IF current.kind # "map"
    THEN Err("expected map for dependency lookup", "", <<>>)
    ELSE LET answerStr == answerValues[i] IN
         IF answerStr \notin DOMAIN current.entries
         THEN CollectFromAll(current, answerValues, ord, i + 1, result)
         ELSE LET next == current.entries[answerStr] IN
              CollectFromAll(current, answerValues, ord, i + 1,
                  CASE next.kind = "list" -> AppendChoices(result, next.items, 1)
                    [] next.kind = "map" ->
                         CollectNested(result, next.entries,
                                       Restrict(ord[i], DOMAIN next.entries), 1)
                    [] OTHER -> result)

\* The switch after the loop over the dependencies.
FinalChoices(current) ==
    CASE current.kind = "list" -> Ok(Stringified(current.items))
      [] current.kind = "map" -> Err("incomplete dependency resolution", "", <<>>)
      [] OTHER -> Err("final choices must be an array", "", <<>>)

\* The loop over q.Type.Dynamic.DependencyQuestions, from the d-th on.
RECURSIVE ResolveFrom(_, _, _, _, _)
ResolveFrom(deps, d, current, ans, ord) ==
    IF d > Len(deps) THEN FinalChoices(current)
    ELSE LET dep == deps[d] IN
         IF dep \notin DOMAIN ans
         THEN Err("dependency answer not found", dep, <<>>)
         ELSE LET answerValues == AnswerValues(ans[dep]) IN
              IF Len(answerValues) > 1
              THEN CollectFromAll(current, answerValues, ord, 1, <<>>)
              ELSE IF Len(answerValues) = 0 THEN Panic
              ELSE LET answerStr == answerValues[1] IN
                   IF current.kind # "map"
                   THEN Err("expected map for dependency lookup", "", <<>>)
                   ELSE IF answerStr \notin DOMAIN current.entries
                   THEN Err("no choices found", dep, answerStr)
                   ELSE LET next == current.entries[answerStr] IN
                        CASE next.kind = "map" -> ResolveFrom(deps, d + 1, next, ans, ord)
                          [] next.kind = "list" -> Ok(Stringified(next.items))
                          [] OTHER -> Err("invalid next value type", "", <<>>)

\* Mutant of GetChoices: the dependency lookup is tried for every question.
GetChoices_AlwaysDynamic(q, ans, ord) ==
    IF ~q.Type.present \/ ~q.Type.Dynamic.present
    THEN Err("dynamic type configuration missing", "", <<>>)
    ELSE ResolveFrom(q.Type.Dynamic.DependencyQuestions, 1, q.Choices, ans, ord)

\* Mutant of resolveDynamicChoices: the dependencies are consumed last to first.
resolveDynamicChoices_Reversed(q, ch, ans, ord) ==
    IF ~q.Type.present \/ ~q.Type.Dynamic.present
    THEN Err("dynamic type configuration missing", "", <<>>)
    ELSE LET deps == q.Type.Dynamic.DependencyQuestions IN
         ResolveFrom([i \in 1..Len(deps) |-> deps[Len(deps) + 1 - i]], 1, ch, ans, ord)

resolveDynamicChoices(q, ch, ans, ord) ==
    IF ~q.Type.present \/ ~q.Type.Dynamic.present
    THEN Err("dynamic type configuration missing", "", <<>>)
    ELSE ResolveFrom(q.Type.Dynamic.DependencyQuestions, 1, ch, ans, ord)

GetChoices(q, ans, ord) ==
    CASE q.Choices.kind = "list" -> Ok(Stringified(q.Choices.items))
      [] q.Choices.kind = "map" -> resolveDynamicChoices(q, q.Choices, ans, ord)
      [] OTHER -> Err("invalid choices type", "", <<>>)

(***************************************************************************)
(* package generator: the combination expander                             *)
(***************************************************************************)
\* Mutant of copyAnswers: the result is allocated but never filled.
copyAnswers_NotFilled(ans) == EmptyMap

copyAnswers(ans) == [key \in DOMAIN ans |-> ans[key]]

findParentQuestion(cfg, questionKey) ==
    LET questions == GetQuestions(cfg) IN
    IF questionKey \notin DOMAIN questions THEN ""
    ELSE LET q == questions[questionKey]
             deps == q.Type.Dynamic.DependencyQuestions IN
         IF q.Type.present /\ q.Type.Dynamic.present /\ Len(deps) > 0
         THEN deps[Len(deps)]
         ELSE ""

\* The map literal {parentKey: parts[0], questionKey: parts[1]}.
HierarchicalEntry(parentKey, questionKey, parts) ==
    Put(Put(EmptyMap, parentKey, parts[1]), questionKey, parts[2])

\* The body of the loop over the selections of one question.
RECURSIVE parseSelections(_, _, _, _, _)
parseSelections(cfg, questionKey, selections, i, parsedSelections) ==
    IF i > Len(selections) THEN parsedSelections
    ELSE LET selection == selections[i]
             parts == SplitN(selection)
             next == IF Contains(selection)
                     THEN IF Len(parts) = 2
                          THEN Append(parsedSelections,
                                      HierarchicalEntry(findParentQuestion(cfg, questionKey),
                                                        questionKey, parts))
                          ELSE parsedSelections
                     ELSE Append(parsedSelections, Put(EmptyMap, questionKey, selection))
         IN parseSelections(cfg, questionKey, selections, i + 1, next)

parseHierarchicalSelections(cfg, mv) ==
    [questionKey \in DOMAIN mv |-> parseSelections(cfg, questionKey, mv[questionKey], 1, <<>>)]

\* Mutant of MakeCombination: the base answers are written over the chosen values.
MakeCombination_BaseWins(ans, current) ==
    PutAll([k \in DOMAIN current |-> Str(current[k])], [key \in DOMAIN ans |-> ans[key]])

\* combination := g.copyAnswers(); for key, value := range current { combination[key] = value }
MakeCombination(ans, current) ==
    PutAll(copyAnswers(ans), [k \in DOMAIN current |-> Str(current[k])])

\* The map current is shared by all levels of the recursion, so it is threaded
\* through: the result is [current, result].  index counts from 1.
RECURSIVE generateHierarchicalCombinationsRecursive(_, _, _, _, _, _)
RECURSIVE CombinationsLoop(_, _, _, _, _, _, _)
generateHierarchicalCombinationsRecursive(ans, ks, values, index, current, result) ==
    IF index > Len(ks)
    THEN [current |-> current, result |-> Append(result, MakeCombination(ans, current))]
    ELSE CombinationsLoop(ans, ks, values, index, 1, current, result)

CombinationsLoop(ans, ks, values, index, j, current, result) ==
    IF j > Len(values[index]) THEN [current |-> current, result |-> result]
    ELSE LET valueMap == values[index][j]
             r == generateHierarchicalCombinationsRecursive(
                      ans, ks, values, index + 1, PutAll(current, valueMap), result)
         IN CombinationsLoop(ans, ks, values, index, j + 1,
                             DeleteAll(r.current, valueMap), r.result)

\* ks is the order in which "for key, vals := range processedQuestions" visits the map.
generateCombinations(cfg, ans, mv, ks) ==
    IF Cardinality(DOMAIN mv) = 0
    THEN <<copyAnswers(ans)>>
    ELSE LET processedQuestions == parseHierarchicalSelections(cfg, mv)
             values == [i \in 1..Len(ks) |-> processedQuestions[ks[i]]]
         IN generateHierarchicalCombinationsRecursive(ans, ks, values, 1, EmptyMap, <<>>).result

(***************************************************************************)
(* package generator: the template name and the multi-value answers        *)
(***************************************************************************)
\* ks is the order in which "for key := range questions" visits the map.
GetOrder(q, ks) == IF Len(q.Order) > 0 THEN q.Order ELSE ks

GetTemplateQuestion(q) == q.TemplateQuestion

\* Mutant of CollectMultiValues: IsMultiple is not asked.
CollectMultiValues_AnyList(questions, ans) ==
    [k \in {key \in DOMAIN questions : key \in DOMAIN ans /\ ans[key].kind = "list"} |->
        ans[k].val]

\* for questionKey, question := range questions {
\*     if question.IsMultiple() { if strSlice, ok := answer.([]string); ok { ... } } }
CollectMultiValues(questions, ans) ==
    [k \in {key \in DOMAIN questions :
               /\ IsMultiple(questions[key])
               /\ key \in DOMAIN ans
               /\ ans[key].kind = "list"} |-> ans[k].val]

\* The loop over questionOrder of the heuristic, from the i-th entry on;
\* templateType = <<>> is the empty string.
RECURSIVE HeuristicTemplate(_, _, _, _, _)
HeuristicTemplate(questions, questionOrder, ans, i, tt) ==
    IF i > Len(questionOrder) THEN tt
    ELSE LET questionKey == questionOrder[i] IN
         IF questionKey \notin DOMAIN questions
         THEN HeuristicTemplate(questions, questionOrder, ans, i + 1, tt)
         ELSE HeuristicTemplate(questions, questionOrder, ans, i + 1,
                  IF /\ ~IsMultiple(questions[questionKey])
                     /\ tt = <<>>
                     /\ questionKey \in DOMAIN ans
                     /\ ans[questionKey].kind = "string"
                  THEN ans[questionKey].val
                  ELSE tt)

\* (string, map[string][]string, error)
TemplateResult(tt, mv, e) == [templateType |-> tt, multiValueQuestions |-> mv, err |-> e]

\* The tail of determineTemplateAndMultiValues.
CheckTemplate(tt, mv) ==
    IF tt = <<>> THEN TemplateResult(<<>>, EmptyMap, "no suitable template type found in answers")
    ELSE TemplateResult(tt, mv, "")

\* Mutant of determineTemplateAndMultiValues: template_question is not looked at.
determineTemplateAndMultiValues_HeuristicOnly(cfg, ans, ks) ==
    LET questions == GetQuestions(cfg) IN
    CheckTemplate(HeuristicTemplate(questions, GetOrder(cfg, ks), ans, 1, <<>>),
                  CollectMultiValues(questions, ans))

determineTemplateAndMultiValues(cfg, ans, ks) ==
    LET questions == GetQuestions(cfg)
        mv == CollectMultiValues(questions, ans)
        templateQuestionKey == GetTemplateQuestion(cfg)
    IN  IF templateQuestionKey # ""
        THEN IF templateQuestionKey \notin DOMAIN ans
             THEN TemplateResult(<<>>, EmptyMap, "template question not answered")
             ELSE IF ans[templateQuestionKey].kind = "string"
             THEN CheckTemplate(ans[templateQuestionKey].val, mv)
             ELSE TemplateResult(<<>>, EmptyMap, "template question must have a single string answer")
        ELSE CheckTemplate(HeuristicTemplate(questions, GetOrder(cfg, ks), ans, 1, <<>>), mv)

(***************************************************************************)
(* package cmd and package generator: collecting the answers               *)
(***************************************************************************)
\* The token that stands for the separator of strings.Split(answerStr, ",").
Comma == ","

\* strings.Split(s, ","): the pieces between the commas, the empty ones included.
RECURSIVE Split(_)
Split(s) ==
    IF \E i \in 1..Len(s) : s[i] = Comma
    THEN LET i == CHOOSE n \in 1..Len(s) : s[n] = Comma /\ \A j \in 1..(n - 1) : s[j] # Comma
         IN <<SubSeq(s, 1, i - 1)>> \o Split(SubSeq(s, i + 1, Len(s)))
    ELSE <<s>>

\* Mutant of ConvertAnswer: the value of the flag is passed on as it is.
ConvertAnswer_NoSplit(q, answerStr) == Str(answerStr)

\* rootCmd.RunE: the value of one --answer flag in the form the generator expects.
ConvertAnswer(q, answerStr) ==
    IF IsMultiple(q) THEN StrList(Split(answerStr)) ELSE Str(answerStr)

\* rootCmd.RunE: generatorAnswers, one entry per question that has a flag.
GeneratorAnswers(cfg, flagAnswers) ==
    LET questions == GetQuestions(cfg) IN
    [questionKey \in (DOMAIN questions) \cap (DOMAIN flagAnswers) |->
        ConvertAnswer(questions[questionKey], flagAnswers[questionKey])]

\* Mutant of validateOptions: only the presence of the map is checked.
validateOptions_MapOnly(cfg, opts) ==
    IF opts.AnswersNil THEN "answers map is required" ELSE ""

\* validateOptions: "" when the answers map is there and every question has
\* an answer in it.
validateOptions(cfg, opts) ==
    IF opts.AnswersNil THEN "answers map is required"
    ELSE IF \E questionKey \in DOMAIN GetQuestions(cfg) : questionKey \notin DOMAIN opts.Answers
    THEN "answer for question is required"
    ELSE ""

\* The elements of s at the positions I, in the order of s.
SubSeqAt(s, I) ==
    LET F[i \in 0..Len(s)] ==
            IF i = 0 THEN <<>> ELSE IF i \in I THEN Append(F[i - 1], s[i]) ELSE F[i - 1]
    IN F[Len(s)]

\* What a prompt can return: (value, error).  survey.AskOne fails when the
\* terminal is interrupted and when there is no option to choose from.
PromptErr(msg) == [err |-> msg, val |-> Str(<<>>)]
Select(opts) ==
    {[err |-> "", val |-> Str(opts[i])] : i \in 1..Len(opts)}
        \cup {PromptErr("failed to get selection")}
MultiSelect(opts) ==
    (IF Len(opts) = 0 THEN {}
     ELSE {[err |-> "", val |-> StrList(SubSeqAt(opts, I))] : I \in SUBSET (1..Len(opts))})
        \cup {PromptErr("failed to get multi-selection")}
\* Search returns an option that equals the typed text, the only option that
\* contains it, or what Select returns over the options that contain it (over
\* all of them when none does).
Search(opts) ==
    {[err |-> "", val |-> Str(opts[i])] : i \in 1..Len(opts)}
        \cup {PromptErr("failed to get text input"), PromptErr("failed to get selection")}

\* askQuestion: the results it can have, given the result of GetChoices.
askQuestion(q, ch) ==
    IF ch.err # NoErr THEN {PromptErr("failed to get choices")}
    ELSE IF IsMultiple(q) THEN MultiSelect(ch.val)
    ELSE IF q.Type.present /\ q.Type.Interactive THEN Search(ch.val)
    ELSE Select(ch.val)

(***************************************************************************)
(* package template: rendering                                             *)
(***************************************************************************)
\* A template string is a sequence of parts: a literal token, the field
\* {{.Questions.key}}, the condition {{if eq .Questions.key "value"}}true
\* {{else}}false{{end}}, or text that template.Parse rejects.
Lit(t) == [part |-> "lit", text |-> t]
Field(k) == [part |-> "field", key |-> k]
IfEq(k, v) == [part |-> "ifeq", key |-> k, value |-> v]
Bad == [part |-> "bad"]

\* (string, error)
Rendered(val) == [err |-> "", val |-> val]
RenderErr(msg) == [err |-> msg, val |-> <<>>]

\* What executing one part writes for the data; a list prints as [a b].
RECURSIVE Joined(_)
Joined(l) == IF Len(l) = 0 THEN <<>> ELSE l[1] \o Joined(Tail(l))
ExecutePart(p, data) ==
    CASE p.part = "lit" -> Rendered(<<p.text>>)
      [] p.part = "field" ->
            IF p.key \notin DOMAIN data THEN Rendered(<<"<no value>">>)
            ELSE IF data[p.key].kind = "list"
            THEN Rendered(<<"[">> \o Joined(data[p.key].val) \o <<"]">>)
            ELSE Rendered(Sprintf(data[p.key]))
      [] p.part = "ifeq" ->
            IF p.key \in DOMAIN data /\ data[p.key].kind = "string"
            THEN Rendered(IF data[p.key].val = p.value THEN <<"true">> ELSE <<"false">>)
            ELSE RenderErr("failed to execute template")
      [] OTHER -> RenderErr("failed to parse template")

\* renderTemplate(name, templateStr, data): Parse fails on a bad part before
\* anything is executed; Execute stops at the first part that fails.
RECURSIVE Execute(_, _, _, _)
Execute(templateStr, data, i, buf) ==
    IF i > Len(templateStr) THEN Rendered(buf)
    ELSE LET r == ExecutePart(templateStr[i], data) IN
         IF r.err # "" THEN r ELSE Execute(templateStr, data, i + 1, buf \o r.val)
renderTemplate(templateStr, data) ==
    IF \E i \in 1..Len(templateStr) : templateStr[i].part = "bad"
    THEN RenderErr("failed to parse template")
    ELSE Execute(templateStr, data, 1, <<>>)

\* Template, FileTemplate, RenderedFile, (*RenderResult, error)
FileTemplate(filename, content, enabled) ==
    [Filename |-> filename, Content |-> content, Enabled |-> enabled]
SingleFileTemplate(path, filename, content) ==
    [Type |-> "file", Path |-> path, Filename |-> filename, Content |-> content]
DirectoryTemplate(basePath, fs) == [Type |-> "directory", BasePath |-> basePath, Files |-> fs]
RenderedFile(path, filename, content) ==
    [Path |-> path, Filename |-> filename, Content |-> content]
RenderResult(fs) == [err |-> "", Files |-> fs]
RenderFailed(msg) == [err |-> msg, Files |-> <<>>]
NoTemplate == [Type |-> "none"]
NoRender == RenderResult(<<>>)
\* generatePreview has not been called.
NoPreview == [done |-> FALSE, err |-> "", Files |-> <<>>]

renderSingleFile(t, data) ==
    LET path == renderTemplate(t.Path, data)
        filename == renderTemplate(t.Filename, data)
        content == renderTemplate(t.Content, data)
    IN  IF path.err # "" THEN RenderFailed("failed to render path")
        ELSE IF filename.err # "" THEN RenderFailed("failed to render filename")
        ELSE IF content.err # "" THEN RenderFailed("failed to render content")
        ELSE RenderResult(<<RenderedFile(path.val, filename.val, content.val)>>)

\* Mutant of IsSkipped: only a condition that renders to "false" skips.
IsSkipped_OnlyFalse(enabled) == enabled = <<"false">>

\* if enabled != "true" { continue }
IsSkipped(enabled) == enabled # <<"true">>

\* The loop "for originalName, fileTemplate := range t.Files", from the i-th
\* name of the order ks in which the map is ranged over.
RECURSIVE RenderMembers(_, _, _, _, _, _)
RenderMembers(t, data, basePath, ks, i, result) ==
    IF i > Len(ks) THEN RenderResult(result)
    ELSE LET fileTemplate == t.Files[ks[i]]
             enabled == renderTemplate(fileTemplate.Enabled, data)
             filename == renderTemplate(fileTemplate.Filename, data)
             content == renderTemplate(fileTemplate.Content, data)
         IN  IF fileTemplate.Enabled # <<>> /\ enabled.err # ""
             THEN RenderFailed("failed to render enabled condition")
             ELSE IF fileTemplate.Enabled # <<>> /\ IsSkipped(enabled.val)
             THEN RenderMembers(t, data, basePath, ks, i + 1, result)
             ELSE IF filename.err # "" THEN RenderFailed("failed to render filename")
             ELSE IF content.err # "" THEN RenderFailed("failed to render content")
             ELSE RenderMembers(t, data, basePath, ks, i + 1,
                      Append(result, RenderedFile(basePath, filename.val, content.val)))

renderDirectory(t, data, ks) ==
    LET basePath == renderTemplate(t.BasePath, data) IN
    IF basePath.err # "" THEN RenderFailed("failed to render base path")
    ELSE RenderMembers(t, data, basePath.val, ks, 1, <<>>)

Render(t, data, ks) ==
    CASE t.Type = "file" -> renderSingleFile(t, data)
      [] t.Type = "directory" -> renderDirectory(t, data, ks)
      [] OTHER -> RenderFailed("unsupported template type")

(***************************************************************************)
(* package generator: preview, confirmation and generation                 *)
(***************************************************************************)
\* template.LoadTemplate: the template that the store holds for the type, or
\* the error of the lookup and of reading .yg/_templates/<type>.yaml.
LoadTemplate(store, tt) ==
    IF tt \in DOMAIN store THEN [err |-> "", tmpl |-> store[tt]]
    ELSE [err |-> "failed to read template file", tmpl |-> NoTemplate]

\* The orders in which renderDirectory can range over the members.
MemberOrders(t) == IF t.Type = "directory" THEN Orders(DOMAIN t.Files) ELSE {<<>>}

\* What generatePreview and generateFiles compute before they render: the
\* template type, the multi-values, the template and the combinations.
Plan(e, tt, mv, ks, combos, t) ==
    [err |-> e, templateType |-> tt, multiValueQuestions |-> mv, keys |-> ks,
     combinations |-> combos, tmpl |-> t]

\* The plans that one call can compute; the calls range over the maps anew.
Plans(cfg, ans, store) ==
    UNION {LET d == determineTemplateAndMultiValues(cfg, ans, qs) IN
           IF d.err # ""
           THEN {Plan("failed to determine template and multi-values",
                      <<>>, EmptyMap, <<>>, <<>>, NoTemplate)}
           ELSE LET l == LoadTemplate(store, d.templateType) IN
                IF l.err # ""
                THEN {Plan("failed to load template", d.templateType,
                           d.multiValueQuestions, <<>>, <<>>, NoTemplate)}
                ELSE {Plan("", d.templateType, d.multiValueQuestions, ks,
                           generateCombinations(cfg, ans, d.multiValueQuestions, ks), l.tmpl) :
                         ks \in Orders(DOMAIN d.multiValueQuestions)} :
             qs \in IF Len(cfg.Order) > 0 THEN {cfg.Order}
                    ELSE Orders(DOMAIN GetQuestions(cfg))}

\* generatePreview: the loop that renders and prints each combination; ords[i]
\* is the order in which the members are ranged over for combination i.
RECURSIVE RenderAll(_, _, _, _, _)
RenderAll(t, combos, ords, i, shown) ==
    IF i > Len(combos) THEN RenderResult(shown)
    ELSE LET result == Render(t, combos[i], ords[i]) IN
         IF result.err # "" THEN [err |-> "failed to render template", Files |-> shown]
         ELSE RenderAll(t, combos, ords, i + 1, shown \o result.Files)

\* Mutant of AlreadyAnswered: every question is prompted.
AlreadyAnswered_Never(ans, questionKey) == FALSE

\* RunWithOptions: if _, exists := g.answers[questionKey]; exists { continue }
AlreadyAnswered(ans, questionKey) == questionKey \in DOMAIN ans

\* Mutant of AfterPreview: the confirmation is never asked.
AfterPreview_NoConfirm(opts) == "generate"

\* RunWithOptions: if !options.SkipPrompt { Confirm } before generateFiles.
AfterPreview(opts) == IF opts.SkipPrompt THEN "generate" ELSE "confirm"

\* prompter.Confirm: (bool, error)
Confirm == {"yes", "no", "error"}

\* os.MkdirAll and os.WriteFile: they succeed or fail.
WriteOutcomes == {"ok", "error"}

(***************************************************************************)
(* Inputs                                                                  *)
(***************************************************************************)
FlatChoices(ss) == ChoiceList([i \in 1..Len(ss) |-> Str(<<ss[i]>>)])

ClusterChoices ==
    ChoiceMap([p \in {<<"dev">>, <<"staging">>} |->
                  IF p = <<"dev">> THEN FlatChoices(<<"c1", "c2">>)
                  ELSE FlatChoices(<<"c2", "c3">>)])

\* The question graph of the tests: app, env (multiple), cluster (multiple, dynamic on env).
BaseDefinitions ==
    [k \in {"app", "env", "cluster"} |->
        CASE k = "app" -> Question(NoType, FlatChoices(<<"deployment", "job">>))
          [] k = "env" -> Question(QuestionType(NoDynamic, FALSE, TRUE),
                                   FlatChoices(<<"dev", "staging">>))
          [] k = "cluster" -> Question(QuestionType(Dynamic(<<"env">>), FALSE, TRUE),
                                       ClusterChoices)]

TestConfig ==
    [Order |-> <<"app", "env", "cluster">>, TemplateQuestion |-> "",
     Definitions |-> BaseDefinitions, DirectMap |-> EmptyMap]

\* What a multi-select answer holds: a choice of the question, or for cluster
\* also a choice tagged with its parent.  "eu: west" is a choice of env, a
\* question without a dynamic type, that happens to contain the separator.
SelectionValues(k) ==
    IF k = "env" THEN {<<"dev">>, <<"staging">>, <<"eu", Sep, "west">>}
    ELSE {<<"c1">>, <<"c2">>, <<"dev", Sep, "c1">>, <<"staging", Sep, "c3">>}

MultiKeys == {k \in DOMAIN BaseDefinitions : IsMultiple(BaseDefinitions[k])}

MultiValueInputs ==
    UNION {[ks -> UNION {SeqsUpTo(SelectionValues(k), MaxSel) : k \in ks}] : ks \in SUBSET MultiKeys}

ScalarAnswers == [k \in {"app"} |-> Str(<<"deployment">>)]

NoResult == Ok(<<>>)
\* No --answer and no --yes; Options{}.
NoFlags == [answer |-> EmptyMap, yes |-> FALSE]
\* Options{}: the Answers map of the zero value is nil.
NoOptions == [Answers |-> EmptyMap, AnswersNil |-> TRUE, SkipPrompt |-> FALSE]

InitExpand ==
    /\ config = TestConfig
    /\ multiValueQuestions \in
          {mv \in MultiValueInputs : \A k \in DOMAIN mv : ToSet(mv[k]) \subseteq SelectionValues(k)}
    \* g.answers holds the list answers too in a run; the unit tests leave them out
    /\ answers \in {ScalarAnswers,
                    PutAll(ScalarAnswers,
                           [k \in DOMAIN multiValueQuestions |-> StrList(multiValueQuestions[k])])}
    /\ keys = <<>>
    /\ combinations = <<>>
    /\ prevCombinations = <<>>
    /\ evals = 0
    /\ question = BaseDefinitions["cluster"]
    /\ choices = NoResult
    /\ templateType = <<>>
    /\ err = ""
    /\ files = <<>>
    /\ flags = NoFlags
    /\ options = NoOptions
    /\ asked = 0
    /\ tmpl = NoTemplate
    /\ rendered = NoRender
    /\ previewed = NoPreview
    /\ written = <<>>
    /\ pendingCombinations = <<>>
    /\ queue = <<>>
    /\ prompted = <<>>
    /\ confirms = <<>>
    /\ canceled = FALSE
    /\ pc = "expand"

\* One evaluation of generateCombinations(multiValueQuestions).
GenerateCombinations ==
    /\ pc = "expand"
    /\ evals < MaxEvals
    /\ \E ks \in Orders(DOMAIN multiValueQuestions) :
          /\ keys' = ks
          /\ combinations' = generateCombinations(config, answers, multiValueQuestions, ks)
    /\ prevCombinations' = combinations
    /\ evals' = evals + 1
    /\ UNCHANGED <<config, answers, multiValueQuestions, resolverVars, templateType, err,
                   loaderVars, runVars, pc>>
    /\ UNCHANGED <<renderVars, outputVars, historyVars>>

NextExpand == GenerateCombinations

SpecExpand == InitExpand /\ [][NextExpand]_vars

\* A question with a two-level dependency: region, then env.
NestedChoices ==
    ChoiceMap([r \in {<<"east">>, <<"west">>} |->
        ChoiceMap([e \in {<<"dev">>, <<"staging">>} |->
            CASE r = <<"east">> /\ e = <<"dev">> -> FlatChoices(<<"e1", "e2">>)
              [] r = <<"east">> /\ e = <<"staging">> -> FlatChoices(<<"e3">>)
              [] r = <<"west">> /\ e = <<"dev">> -> FlatChoices(<<"w1", "e1">>)
              [] OTHER -> ChoiceList(<<Str(<<"w2">>), IntVal(80)>>)])])

NestedQuestion == Question(QuestionType(Dynamic(<<"region", "env">>), FALSE, TRUE), NestedChoices)

\* A question with a flat list of choices, one of them a YAML integer.
PortQuestion == Question(NoType, ChoiceList(<<Str(<<"http">>), IntVal(80), Str(<<"http">>)>>))

\* A mapping one key of which is the string form of an integer.
NumericChoices ==
    ChoiceMap([p \in {<<"dev">>, <<"123">>} |->
                  IF p = <<"dev">> THEN FlatChoices(<<"c1">>) ELSE FlatChoices(<<"n1">>)])

NumericQuestion == Question(QuestionType(Dynamic(<<"env">>), FALSE, FALSE), NumericChoices)

ResolverQuestions == {BaseDefinitions["cluster"], NestedQuestion, PortQuestion, NumericQuestion}

\* The answers a dependency can have: none, a string, a list of strings, an integer.
\* "qa" and "north" are values that key into no mapping.
DependencyValues(dep) ==
    IF dep = "env" THEN {<<"dev">>, <<"staging">>, <<"qa">>} ELSE {<<"east">>, <<"west">>}
DependencyAnswers(dep) ==
    {Str(v) : v \in DependencyValues(dep)}
        \cup {StrList(l) : l \in SeqsUpTo(DependencyValues(dep), MaxSel)}
        \cup {IntVal(123)}
ResolverAnswers ==
    UNION {{a \in [ds -> UNION {DependencyAnswers(d) : d \in ds}] :
               \A d \in ds : a[d] \in DependencyAnswers(d)} : ds \in SUBSET {"region", "env"}}

NestedKeys == {<<"dev">>, <<"staging">>}

InitChoices ==
    /\ config = TestConfig
    /\ question \in ResolverQuestions
    /\ answers \in ResolverAnswers
    /\ multiValueQuestions = EmptyMap
    /\ keys = <<>>
    /\ combinations = <<>>
    /\ prevCombinations = <<>>
    /\ evals = 0
    /\ choices = NoResult
    /\ templateType = <<>>
    /\ err = ""
    /\ files = <<>>
    /\ flags = NoFlags
    /\ options = NoOptions
    /\ asked = 0
    /\ tmpl = NoTemplate
    /\ rendered = NoRender
    /\ previewed = NoPreview
    /\ written = <<>>
    /\ pendingCombinations = <<>>
    /\ queue = <<>>
    /\ prompted = <<>>
    /\ confirms = <<>>
    /\ canceled = FALSE
    /\ pc = "choices"

\* One call question.GetChoices(answers).
ResolveChoices ==
    /\ pc = "choices"
    /\ \E ord \in [1..MaxSel -> Orders(NestedKeys)] :
          choices' = GetChoices(question, answers, ord)
    /\ pc' = "resolved"
    /\ UNCHANGED <<config, answers, multiValueQuestions, expanderVars, question,
                   templateType, err, loaderVars, runVars>>
    /\ UNCHANGED <<renderVars, outputVars, historyVars>>

NextChoices == ResolveChoices

SpecChoices == InitChoices /\ [][NextChoices]_vars

\* The question graph of setupTestEnvironment: BaseDefinitions and appName, a
\* second question with a single answer.
TemplateDefinitions ==
    [k \in {"app", "appName", "env", "cluster"} |->
        IF k = "appName"
        THEN Question(QuestionType(Dynamic(<<"app">>), TRUE, FALSE),
                      ChoiceMap([p \in {<<"deployment">>, <<"job">>} |-> FlatChoices(<<"appName">>)]))
        ELSE BaseDefinitions[k]]

\* template_question is not set, names a question with a single answer that is
\* not the first one of the test order, or names a multiple question.
TemplateQuestions == {"", "appName", "env"}

TemplateConfigs ==
    {[Order |-> o, TemplateQuestion |-> t, Definitions |-> TemplateDefinitions,
      DirectMap |-> EmptyMap] : o \in Orders(DOMAIN TemplateDefinitions), t \in TemplateQuestions}

\* What g.answers can hold for a question: the empty string, a value (written
\* as the key of its question), or a list of values.
TemplateAnswers(k) ==
    {Str(<<>>), Str(<<k>>)} \cup {StrList(l) : l \in SeqsUpTo({<<k>>}, MaxSel)}

TemplateAnswerMaps ==
    UNION {{a \in [ks -> UNION {TemplateAnswers(k) : k \in ks}] :
               \A k \in ks : a[k] \in TemplateAnswers(k)} : ks \in SUBSET DOMAIN TemplateDefinitions}

InitTemplate ==
    /\ config \in TemplateConfigs
    /\ answers \in TemplateAnswerMaps
    /\ multiValueQuestions = EmptyMap
    /\ keys = <<>>
    /\ combinations = <<>>
    /\ prevCombinations = <<>>
    /\ evals = 0
    /\ question = BaseDefinitions["cluster"]
    /\ choices = NoResult
    /\ templateType = <<>>
    /\ err = ""
    /\ files = <<>>
    /\ flags = NoFlags
    /\ options = NoOptions
    /\ asked = 0
    /\ tmpl = NoTemplate
    /\ rendered = NoRender
    /\ previewed = NoPreview
    /\ written = <<>>
    /\ pendingCombinations = <<>>
    /\ queue = <<>>
    /\ prompted = <<>>
    /\ confirms = <<>>
    /\ canceled = FALSE
    /\ pc = "determine"

\* One call g.determineTemplateAndMultiValues().
DetermineTemplate ==
    /\ pc = "determine"
    \* the questions are ranged over for an order only when none is configured
    /\ \E ks \in IF Len(config.Order) > 0 THEN {config.Order}
                  ELSE Orders(DOMAIN GetQuestions(config)) :
          LET r == determineTemplateAndMultiValues(config, answers, ks) IN
          /\ templateType' = r.templateType
          /\ multiValueQuestions' = r.multiValueQuestions
          /\ err' = r.err
    /\ pc' = "determined"
    /\ UNCHANGED <<config, answers, expanderVars, resolverVars, loaderVars, runVars>>
    /\ UNCHANGED <<renderVars, outputVars, historyVars>>

NextTemplate == DetermineTemplate

SpecTemplate == InitTemplate /\ [][NextTemplate]_vars

\* The question graph of setupTestEnvironment with its order.
RunConfig ==
    [Order |-> <<"app", "appName", "env", "cluster">>, TemplateQuestion |-> "",
     Definitions |-> TemplateDefinitions, DirectMap |-> EmptyMap]

\* The values that --answer key=value is given with; "other" is no question.
FlagValues(k) ==
    CASE k = "app" -> {<<"deployment">>, <<>>, <<"broken">>}
      [] k = "appName" -> {<<"appName">>}
      [] k = "env" -> {<<"dev">>, <<"dev", Comma, "staging">>, <<"dev", Comma>>}
      [] k = "cluster" -> {<<"c1">>, <<"c1", Comma, "c2">>, <<"dev", Sep, "c1", Comma, "c2">>}
      [] OTHER -> {<<"x">>}
FlagKeys == {"app", "appName", "env", "cluster", "other"}
FlagAnswers ==
    UNION {{a \in [ks -> UNION {FlagValues(k) : k \in ks}] :
               \A k \in ks : a[k] \in FlagValues(k)} : ks \in SUBSET FlagKeys}

\* The templates of .yg/_templates: a file per deployment, a directory per
\* job whose second member is for dev only, and a file that does not parse.
RunContent == <<Lit("name: "), Field("appName")>>
RunTemplates ==
    [tt \in {<<"deployment">>, <<"job">>, <<"broken">>} |->
        CASE tt = <<"deployment">> ->
                SingleFileTemplate(<<Lit("out/"), Field("env")>>,
                                   <<Field("cluster"), Lit(".yaml")>>, RunContent)
          [] tt = <<"job">> ->
                DirectoryTemplate(<<Lit("jobs/"), Field("env")>>,
                    [n \in {"job.yaml", "dev.yaml"} |->
                        IF n = "job.yaml"
                        THEN FileTemplate(<<Field("cluster"), Lit("-job.yaml")>>, RunContent, <<>>)
                        ELSE FileTemplate(<<Field("cluster"), Lit("-dev.yaml")>>, RunContent,
                                          <<IfEq("env", <<"dev">>)>>)])
          [] OTHER -> SingleFileTemplate(<<Lit("out/")>>, <<Lit("x.yaml")>>, <<Bad>>)]

\* The program starts in rootCmd.RunE with its flags, or RunWithOptions is
\* called with the zero value of the answers, as Run and the tests call it.
InitRun ==
    /\ config = RunConfig
    /\ \/ /\ flags \in {[answer |-> a, yes |-> y] : a \in FlagAnswers, y \in BOOLEAN}
          /\ options = NoOptions
          /\ pc = "cli"
       \/ /\ flags = NoFlags
          /\ options \in {[NoOptions EXCEPT !.SkipPrompt = y] : y \in BOOLEAN}
          /\ pc = "run"
    /\ answers = EmptyMap
    /\ asked = 0
    /\ err = ""
    /\ multiValueQuestions = EmptyMap
    /\ keys = <<>>
    /\ combinations = <<>>
    /\ prevCombinations = <<>>
    /\ evals = 0
    /\ question = BaseDefinitions["cluster"]
    /\ choices = NoResult
    /\ templateType = <<>>
    /\ files = <<>>
    /\ tmpl = NoTemplate
    /\ rendered = NoRender
    /\ previewed = NoPreview
    /\ written = <<>>
    /\ pendingCombinations = <<>>
    /\ queue = <<>>
    /\ prompted = <<>>
    /\ confirms = <<>>
    /\ canceled = FALSE

\* rootCmd.RunE up to the call of RunWithOptions.
RunE ==
    /\ pc = "cli"
    /\ options' = [Answers |-> GeneratorAnswers(config, flags.answer), AnswersNil |-> FALSE,
                   SkipPrompt |-> flags.yes]
    /\ pc' = "run"
    /\ UNCHANGED <<config, answers, multiValueQuestions, expanderVars, resolverVars,
                   templateType, err, loaderVars, flags, asked>>
    /\ UNCHANGED <<renderVars, outputVars, historyVars>>

\* RunWithOptions up to the loop over the questions: with SkipPrompt the
\* options are validated and copied, without it they are copied.
StartRun ==
    /\ pc = "run"
    /\ IF options.SkipPrompt /\ validateOptions(config, options) # ""
       THEN /\ err' = "invalid options"
            /\ pc' = "failed"
            /\ UNCHANGED answers
       ELSE /\ answers' = PutAll(answers, options.Answers)
            /\ err' = err
            /\ pc' = IF options.SkipPrompt THEN "collected" ELSE "asking"
    /\ UNCHANGED <<config, multiValueQuestions, expanderVars, resolverVars,
                   templateType, loaderVars, runVars>>
    /\ UNCHANGED <<renderVars, outputVars, historyVars>>

\* One round of the loop over the question order: the context is looked at,
\* then the question is skipped or asked; after the last round the answers
\* are collected.
AskQuestion ==
    /\ pc = "asking"
    /\ \E ks \in IF Len(config.Order) > 0 THEN {config.Order}
                  ELSE Orders(DOMAIN GetQuestions(config)) :
       LET questionOrder == GetOrder(config, ks)
           questions == GetQuestions(config)
       IN  IF asked >= Len(questionOrder)
           THEN pc' = "collected" /\ UNCHANGED <<answers, err, asked, resolverVars, prompted>>
           ELSE IF canceled
           THEN /\ err' = "operation canceled"
                /\ pc' = "failed"
                /\ UNCHANGED <<answers, asked, resolverVars, prompted>>
           ELSE LET questionKey == questionOrder[asked + 1]
                    after == IF asked + 1 = Len(questionOrder) THEN "collected" ELSE "asking"
                IN  IF AlreadyAnswered(answers, questionKey)
                    THEN /\ asked' = asked + 1
                         /\ pc' = after
                         /\ UNCHANGED <<answers, err, resolverVars, prompted>>
                    ELSE IF questionKey \notin DOMAIN questions
                    THEN /\ err' = "question not found in config"
                         /\ pc' = "failed"
                         /\ UNCHANGED <<answers, asked, resolverVars, prompted>>
                    ELSE \E ord \in [1..MaxSel -> Orders(NestedKeys)] :
                         LET ch == GetChoices(questions[questionKey], answers, ord) IN
                         /\ question' = questions[questionKey]
                         /\ choices' = ch
                         /\ prompted' = IF ch.err # NoErr THEN prompted
                                        ELSE Append(prompted, [key |-> questionKey,
                                                               answers |-> answers])
                         /\ \E answer \in askQuestion(questions[questionKey], ch) :
                                IF answer.err # ""
                                THEN /\ err' = "failed to ask question"
                                     /\ pc' = "failed"
                                     /\ UNCHANGED <<answers, asked>>
                                ELSE /\ answers' = Put(answers, questionKey, answer.val)
                                     /\ asked' = asked + 1
                                     /\ pc' = after
                                     /\ err' = err
    /\ UNCHANGED <<config, multiValueQuestions, expanderVars, templateType, loaderVars,
                   flags, options, renderVars, outputVars, confirms, canceled>>

\* generatePreview: every combination is rendered and shown, or the call
\* fails; then RunWithOptions goes on to the confirmation or to generateFiles.
GeneratePreview ==
    /\ pc = "collected"
    /\ \E plan \in Plans(config, answers, RunTemplates) :
          /\ templateType' = plan.templateType
          /\ multiValueQuestions' = plan.multiValueQuestions
          /\ tmpl' = plan.tmpl
          /\ IF plan.err # ""
             THEN /\ previewed' = [done |-> TRUE, err |-> plan.err, Files |-> <<>>]
                  /\ err' = "failed to generate preview"
                  /\ pc' = "failed"
                  /\ UNCHANGED expanderVars
             ELSE /\ keys' = plan.keys
                  /\ prevCombinations' = combinations
                  /\ combinations' = plan.combinations
                  /\ evals' = evals + 1
                  /\ \E ords \in [1..Len(plan.combinations) -> MemberOrders(plan.tmpl)] :
                        LET shown == RenderAll(plan.tmpl, plan.combinations, ords, 1, <<>>) IN
                        /\ previewed' = [done |-> TRUE, err |-> shown.err, Files |-> shown.Files]
                        /\ err' = IF shown.err # "" THEN "failed to generate preview" ELSE err
                        /\ pc' = IF shown.err # "" THEN "failed" ELSE AfterPreview(options)
    /\ UNCHANGED <<config, answers, resolverVars, loaderVars, runVars, rendered, written,
                   pendingCombinations, queue, historyVars>>

\* prompter.Confirm("Proceed with generation?"): an error is returned, a
\* refusal ends the run without an error, a consent goes on to generateFiles.
ConfirmGeneration ==
    /\ pc = "confirm"
    /\ \E confirmed \in Confirm :
          /\ confirms' = Append(confirms, confirmed)
          /\ err' = IF confirmed = "error" THEN "failed to get confirmation" ELSE err
          /\ pc' = CASE confirmed = "error" -> "failed"
                     [] confirmed = "no" -> "done"
                     [] OTHER -> "generate"
    /\ UNCHANGED <<config, answers, multiValueQuestions, expanderVars, resolverVars,
                   templateType, loaderVars, runVars, renderVars, outputVars,
                   prompted, canceled>>

\* generateFiles up to its loop: the template type, the template and the
\* combinations are computed again.
GenerateFiles ==
    /\ pc = "generate"
    /\ \E plan \in Plans(config, answers, RunTemplates) :
          /\ templateType' = plan.templateType
          /\ multiValueQuestions' = plan.multiValueQuestions
          /\ tmpl' = plan.tmpl
          /\ IF plan.err # ""
             THEN /\ err' = "failed to generate files"
                  /\ pc' = "failed"
                  /\ UNCHANGED <<expanderVars, pendingCombinations>>
             ELSE /\ keys' = plan.keys
                  /\ prevCombinations' = combinations
                  /\ combinations' = plan.combinations
                  /\ evals' = evals + 1
                  /\ pendingCombinations' = plan.combinations
                  /\ err' = err
                  /\ pc' = IF Len(plan.combinations) = 0 THEN "done" ELSE "writing"
    /\ UNCHANGED <<config, answers, resolverVars, loaderVars, runVars, rendered, previewed,
                   written, queue, historyVars>>

\* One round of the loop of generateFiles: tmpl.Render of the next combination.
RenderNext ==
    /\ pc = "writing"
    /\ Len(queue) = 0
    /\ \E ks \in MemberOrders(tmpl) :
          LET result == Render(tmpl, Head(pendingCombinations), ks) IN
          /\ rendered' = result
          /\ IF result.err # ""
             THEN /\ err' = "failed to generate files"
                  /\ pc' = "failed"
                  /\ UNCHANGED <<pendingCombinations, queue>>
             ELSE /\ queue' = result.Files
                  /\ pendingCombinations' = Tail(pendingCombinations)
                  /\ err' = err
                  /\ pc' = IF Len(result.Files) = 0 /\ Len(pendingCombinations) = 1
                           THEN "done" ELSE "writing"
    /\ UNCHANGED <<config, answers, multiValueQuestions, expanderVars, resolverVars,
                   templateType, loaderVars, runVars, tmpl, previewed, written, historyVars>>

\* The inner loop of generateFiles: os.MkdirAll and os.WriteFile of the next
\* rendered file.
WriteFile ==
    /\ pc = "writing"
    /\ Len(queue) > 0
    /\ \E outcome \in WriteOutcomes :
          IF outcome = "error"
          THEN /\ err' = "failed to generate files"
               /\ pc' = "failed"
               /\ UNCHANGED <<written, queue>>
          ELSE /\ written' = Append(written, Head(queue))
               /\ queue' = Tail(queue)
               /\ err' = err
               /\ pc' = IF Len(queue) = 1 /\ Len(pendingCombinations) = 0
                        THEN "done" ELSE "writing"
    /\ UNCHANGED <<config, answers, multiValueQuestions, expanderVars, resolverVars,
                   templateType, loaderVars, runVars, renderVars, previewed,
                   pendingCombinations, historyVars>>

\* RunWithOptions has not returned and the process has not exited.
Running == pc \in {"run", "asking", "collected", "confirm", "generate", "writing"}

\* The goroutine of RunWithOptions: <-sigChan; cancel().
Signal ==
    /\ Running
    /\ ~canceled
    /\ canceled' = TRUE
    /\ UNCHANGED <<config, answers, multiValueQuestions, expanderVars, resolverVars,
                   templateType, err, loaderVars, runVars, renderVars, outputVars,
                   prompted, confirms, pc>>

\* The goroutine of RunWithOptions: os.Exit(1) after cancel().
Exit ==
    /\ Running
    /\ canceled
    /\ pc' = "exited"
    /\ UNCHANGED <<config, answers, multiValueQuestions, expanderVars, resolverVars,
                   templateType, err, loaderVars, runVars, renderVars, outputVars,
                   historyVars>>

NextRun ==
    \/ RunE
    \/ StartRun
    \/ AskQuestion
    \/ GeneratePreview
    \/ ConfirmGeneration
    \/ GenerateFiles
    \/ RenderNext
    \/ WriteFile
    \/ Signal
    \/ Exit

SpecRun == InitRun /\ [][NextRun]_vars

\* The question maps that a document can hold, as definitions or inline.
DocumentQuestions ==
    {EmptyMap, [k \in {"app", "env"} |-> BaseDefinitions[k]], BaseDefinitions}

\* The orders that a document can give: none, the keys of its questions in
\* some order, or an order that names a question that is not defined.
DocumentOrders ==
    {<<>>, <<"app", "ghost">>}
        \cup UNION {Orders(DOMAIN m) : m \in DocumentQuestions \ {EmptyMap}}

Documents ==
    {Document(o, "", h, d, i) :
        o \in DocumentOrders, h \in BOOLEAN, d \in DocumentQuestions, i \in DocumentQuestions}
        \ {Document(o, "", FALSE, d, i) :
              o \in DocumentOrders, d \in DocumentQuestions \ {EmptyMap}, i \in DocumentQuestions}

\* What the three default paths hold when no path is given.
DefaultFiles ==
    {NoFile, BadFile,
     Document(<<>>, "", FALSE, EmptyMap, BaseDefinitions),
     Document(<<"app", "env", "cluster">>, "", TRUE, BaseDefinitions, EmptyMap)}

DefaultPaths == 3

InitLoad ==
    /\ files \in [1..1 -> Documents \cup {NoFile, BadFile}] \cup [1..DefaultPaths -> DefaultFiles]
    /\ config = NoQuestions
    /\ err = ""
    /\ answers = EmptyMap
    /\ multiValueQuestions = EmptyMap
    /\ keys = <<>>
    /\ combinations = <<>>
    /\ prevCombinations = <<>>
    /\ evals = 0
    /\ question = BaseDefinitions["cluster"]
    /\ choices = NoResult
    /\ templateType = <<>>
    /\ flags = NoFlags
    /\ options = NoOptions
    /\ asked = 0
    /\ tmpl = NoTemplate
    /\ rendered = NoRender
    /\ previewed = NoPreview
    /\ written = <<>>
    /\ pendingCombinations = <<>>
    /\ queue = <<>>
    /\ prompted = <<>>
    /\ confirms = <<>>
    /\ canceled = FALSE
    /\ pc = "load"

\* One call config.LoadConfig(configPath).
Load ==
    /\ pc = "load"
    /\ \E ks \in Orders(DOMAIN BaseDefinitions) :
          LET r == LoadConfig(files, ks) IN
          /\ config' = r.config
          /\ err' = r.err
    /\ pc' = "loaded"
    /\ UNCHANGED <<answers, multiValueQuestions, expanderVars, resolverVars, templateType,
                   loaderVars, runVars>>
    /\ UNCHANGED <<renderVars, outputVars, historyVars>>

NextLoad == Load

SpecLoad == InitLoad /\ [][NextLoad]_vars

\* The members of a directory template: for each name a filename, a content
\* and an enable-condition (<<>>: none).  "true " is not the literal "true".
MemberNames == {"a.yaml", "b.yaml"}
EnabledTemplates ==
    {<<>>, <<Lit("true")>>, <<Lit("false")>>, <<Lit("true"), Lit(" ")>>,
     <<IfEq("env", <<"dev">>)>>, <<Bad>>}
FilenameTemplates(name) == {<<Lit(name)>>, <<Field("env"), Lit("-"), Lit(name)>>, <<Bad>>}
ContentTemplate == <<Lit("kind: "), Field("app")>>
Members ==
    UNION {{fs \in [names -> UNION {{FileTemplate(f, ContentTemplate, e) :
                                         f \in FilenameTemplates(n), e \in EnabledTemplates} :
                                     n \in names}] :
               \A n \in names : fs[n].Filename \in FilenameTemplates(n)} :
           names \in SUBSET MemberNames}
BasePathTemplates == {<<Lit("out/"), Field("env")>>, <<Bad>>}

RenderTemplates ==
    {DirectoryTemplate(b, fs) : b \in BasePathTemplates, fs \in Members}
        \cup {SingleFileTemplate(b, f, ContentTemplate) :
                 b \in BasePathTemplates, f \in FilenameTemplates("a.yaml")}

\* The Combinations that are rendered: env is a string, a list left in the
\* base answers, or missing.
RenderData ==
    {[k \in {"app", "env"} |-> IF k = "app" THEN Str(<<"job">>) ELSE e] :
        e \in {Str(<<"dev">>), Str(<<"staging">>), StrList(<<<<"dev">>, <<"staging">>>>)}}
        \cup {[k \in {"app"} |-> Str(<<"job">>)]}

InitRender ==
    /\ tmpl \in RenderTemplates
    /\ combinations \in {<<d>> : d \in RenderData}
    /\ rendered = NoRender
    /\ config = TestConfig
    /\ answers = EmptyMap
    /\ multiValueQuestions = EmptyMap
    /\ keys = <<>>
    /\ prevCombinations = <<>>
    /\ evals = 0
    /\ question = BaseDefinitions["cluster"]
    /\ choices = NoResult
    /\ templateType = <<>>
    /\ err = ""
    /\ files = <<>>
    /\ flags = NoFlags
    /\ options = NoOptions
    /\ asked = 0
    /\ previewed = NoPreview
    /\ written = <<>>
    /\ pendingCombinations = <<>>
    /\ queue = <<>>
    /\ prompted = <<>>
    /\ confirms = <<>>
    /\ canceled = FALSE
    /\ pc = "render"

\* One call tmpl.Render(&Data{Questions: combination}).
RenderTemplate ==
    /\ pc = "render"
    /\ \E ks \in IF tmpl.Type = "directory" THEN Orders(DOMAIN tmpl.Files) ELSE {<<>>} :
          rendered' = Render(tmpl, combinations[1], ks)
    /\ pc' = "rendered"
    /\ UNCHANGED <<config, answers, multiValueQuestions, expanderVars, resolverVars,
                   templateType, err, loaderVars, runVars, tmpl, outputVars, historyVars>>

NextRender == RenderTemplate

SpecRender == InitRender /\ [][NextRender]_vars

(***************************************************************************)
(* Claims about the combination expander                                   *)
(***************************************************************************)
Expanded == evals >= 1
Tagged(s) == Contains(s)
ParentPart(s) == SplitN(s)[1]
ChildPart(s) == IF Tagged(s) THEN SplitN(s)[2] ELSE s
AllTagged(qk) == \A i \in 1..Len(multiValueQuestions[qk]) : Tagged(multiValueQuestions[qk][i])
NoneTagged(qk) == \A i \in 1..Len(multiValueQuestions[qk]) : ~Tagged(multiValueQuestions[qk][i])
\* The parent key of a dynamic question, read off the graph.
HasParent(qk) ==
    LET t == config.Definitions[qk].Type IN
    t.present /\ t.Dynamic.present /\ Len(t.Dynamic.DependencyQuestions) > 0
ParentKey(qk) ==
    LET deps == config.Definitions[qk].Type.Dynamic.DependencyQuestions IN deps[Len(deps)]
\* The keys that some tagged question pins.
PinnedParents ==
    {ParentKey(qk) : qk \in {k \in DOMAIN multiValueQuestions :
                               HasParent(k) /\ \E i \in 1..Len(multiValueQuestions[k]) :
                                                  Tagged(multiValueQuestions[k][i])}}

\* Every tag names a parent value that the parent question, where it is itself a
\* multi-value question, has among its selected values.
TagsConsistent ==
    \A qk \in DOMAIN multiValueQuestions :
        \A i \in 1..Len(multiValueQuestions[qk]) :
            LET s == multiValueQuestions[qk][i] IN
            (Tagged(s) /\ HasParent(qk) /\ ParentKey(qk) \in DOMAIN multiValueQuestions) =>
                ParentPart(s) \in ToSet(multiValueQuestions[ParentKey(qk)])
NoDuplicates ==
    \A qk \in DOMAIN multiValueQuestions :
        Cardinality(ToSet(multiValueQuestions[qk])) = Len(multiValueQuestions[qk])

RECURSIVE Product(_, _)
Product(f, S) == IF S = {} THEN 1
                 ELSE LET x == CHOOSE y \in S : TRUE IN f[x] * Product(f, S \ {x})
Count(seq, v) == Cardinality({i \in 1..Len(seq) : seq[i] = v})

\* C1: a Combination that holds child c of a tagged question holds, under the
\* parent key, a parent p such that "p: c" was selected - for every order of the
\* multi-value questions, also when the parent is itself a multi-value question.
C1_ChildPairedWithPresentedParent ==
    \A qk \in DOMAIN multiValueQuestions :
        (Expanded /\ TagsConsistent /\ HasParent(qk) /\ AllTagged(qk)) =>
            \A n \in 1..Len(combinations) :
                LET c == combinations[n] IN
                (qk \in DOMAIN c /\ c[qk].kind = "string") =>
                    \E i \in 1..Len(multiValueQuestions[qk]) :
                        LET s == multiValueQuestions[qk][i] IN
                        /\ c[qk] = Str(ChildPart(s))
                        /\ ParentKey(qk) \in DOMAIN c
                        /\ c[ParentKey(qk)] = Str(ParentPart(s))

\* C2: the number of Combinations is the product of the distinct selected-value
\* counts of the multi-value questions, a tagged child and its parent counting
\* together as the number of selected (parent, child) pairs.
C2_CountIsProductWithPinnedPairs ==
    (Expanded /\ TagsConsistent /\ NoDuplicates
        /\ \A qk \in DOMAIN multiValueQuestions : AllTagged(qk) \/ NoneTagged(qk)) =>
        Len(combinations) =
            Product([qk \in DOMAIN multiValueQuestions |->
                        Cardinality(ToSet(multiValueQuestions[qk]))],
                    (DOMAIN multiValueQuestions) \ PinnedParents)

\* C3: every Combination equals the base answers outside the multi-value and
\* pinned parent keys, and maps every multi-value question key to one string
\* that is a selected value of that question (its child part when tagged).
C3_CombinationIsBasePlusSingleValues ==
    (Expanded /\ TagsConsistent) =>
        \A n \in 1..Len(combinations) :
            LET c == combinations[n] IN
            /\ \A k \in (DOMAIN answers) \ ((DOMAIN multiValueQuestions) \cup PinnedParents) :
                   k \in DOMAIN c /\ c[k] = answers[k]
            /\ \A qk \in DOMAIN multiValueQuestions :
                   /\ qk \in DOMAIN c
                   /\ c[qk].kind = "string"
                   /\ \E i \in 1..Len(multiValueQuestions[qk]) :
                          c[qk].val = ChildPart(multiValueQuestions[qk][i])

\* The Combination that a tuple t of selected values stands for.
TupleCombination(t) == PutAll(answers, [k \in DOMAIN t |-> Str(t[k])])
Tuples == {t \in [DOMAIN multiValueQuestions -> UNION {ToSet(multiValueQuestions[k]) :
                                                          k \in DOMAIN multiValueQuestions}] :
              \A k \in DOMAIN t : t[k] \in ToSet(multiValueQuestions[k])}

C5_EmptyGivesBase ==
    (Expanded /\ DOMAIN multiValueQuestions = {}) => combinations = <<answers>>

C5_Witness ==
    Expanded /\ DOMAIN multiValueQuestions = {} /\ Len(combinations) = 1 /\ "app" \in DOMAIN answers

\* C6: two evaluations over the same inputs return the same set of Combinations,
\* whatever order each ranged over the multi-value questions in.
C6_SetIndependentOfOrder ==
    (evals >= 2 /\ TagsConsistent
        /\ \A qk \in DOMAIN multiValueQuestions : AllTagged(qk) \/ NoneTagged(qk)) =>
        ToSet(prevCombinations) = ToSet(combinations)

(***************************************************************************)
(* Claims about the choice resolver                                        *)
(***************************************************************************)
Resolved == pc = "resolved"
Deps == question.Type.Dynamic.DependencyQuestions
MultiValued(dep) ==
    dep \in DOMAIN answers /\ answers[dep].kind = "list" /\ Len(answers[dep].val) >= 2
SingleValued(dep) ==
    /\ dep \in DOMAIN answers
    /\ \/ answers[dep].kind = "string"
       \/ answers[dep].kind = "list" /\ Len(answers[dep].val) = 1
Selected(dep) == IF answers[dep].kind = "list" THEN answers[dep].val ELSE <<answers[dep].val>>

\* The dependency at which the resolver fans out (0: none), the mapping it fans
\* out on, and the selected parent values.
FanOutDep ==
    IF Len(Deps) = 0 THEN 0
    ELSE IF MultiValued(Deps[1]) THEN 1
    ELSE IF /\ Len(Deps) >= 2
            /\ SingleValued(Deps[1])
            /\ Selected(Deps[1])[1] \in DOMAIN question.Choices.entries
            /\ question.Choices.entries[Selected(Deps[1])[1]].kind = "map"
            /\ MultiValued(Deps[2])
    THEN 2 ELSE 0
FanOutEntries ==
    IF FanOutDep = 1 THEN question.Choices.entries
    ELSE question.Choices.entries[Selected(Deps[1])[1]].entries
Parents == Selected(Deps[FanOutDep])
FlatUnderParents ==
    \A i \in 1..Len(Parents) :
        Parents[i] \in DOMAIN FanOutEntries => FanOutEntries[Parents[i]].kind = "list"
\* <<i, j>>: the j-th declared child of the i-th selected parent.
Positions ==
    UNION {{<<i, j>> : j \in 1..Len(FanOutEntries[Parents[i]].items)} :
              i \in {n \in 1..Len(Parents) : Parents[n] \in DOMAIN FanOutEntries}}
ChoiceAt(pos) == Sprintf(FanOutEntries[Parents[pos[1]]].items[pos[2]])
Before(p, q) == p[1] < q[1] \/ (p[1] = q[1] /\ p[2] < q[2])
FirstSeen(x) ==
    CHOOSE p \in Positions :
        ChoiceAt(p) = x /\ \A q \in Positions : ChoiceAt(q) = x => (q = p \/ Before(p, q))

C8_FanOutChoicesAreTagged ==
    (Resolved /\ FanOutDep > 0 /\ FlatUnderParents /\ Cardinality(ToSet(Parents)) > 1) =>
        /\ choices.err = NoErr
        /\ \A n \in 1..Len(choices.val) :
               \E p \in Positions : choices.val[n] = Parents[p[1]] \o <<Sep>> \o ChoiceAt(p)

\* The node at the end of the path that the single-valued answers spell out.
RECURSIVE PathEnd(_, _)
PathEnd(node, d) ==
    IF d > Len(Deps) THEN node
    ELSE IF node.kind = "map" /\ Selected(Deps[d])[1] \in DOMAIN node.entries
    THEN PathEnd(node.entries[Selected(Deps[d])[1]], d + 1)
    ELSE [kind |-> "none"]

\* C9: with single-valued answers for all dependencies, the result is the flat
\* list at the end of the path taken through the dependencies in the order
\* listed, verbatim and in declared order.
C9_SingleValuedFollowsPath ==
    (/\ Resolved
     /\ \A d \in 1..Len(Deps) : SingleValued(Deps[d])
     /\ PathEnd(question.Choices, 1).kind = "list") =>
        LET items == PathEnd(question.Choices, 1).items IN
        /\ choices.err = NoErr
        /\ choices.val = [i \in 1..Len(items) |-> Sprintf(items[i])]

\* region = east, env = [dev] resolved to choices[east][dev].
C9_Witness ==
    /\ Resolved
    /\ Deps = <<"region", "env">>
    /\ \A d \in 1..Len(Deps) : SingleValued(Deps[d])
    /\ answers["region"] = Str(<<"east">>)
    /\ answers["env"] = StrList(<<<<"dev">>>>)
    /\ choices = Ok(<<<<"e1">>, <<"e2">>>>)

\* C10: with dependencies [d1, d2], d1 multi-valued over nested mappings, the
\* result holds only choices listed under an answered value of d2 inside a
\* selected d1 mapping.
C10_NestedFanOutFollowsNextDependency ==
    (/\ Resolved
     /\ Len(Deps) = 2
     /\ MultiValued(Deps[1])
     /\ Cardinality(ToSet(Selected(Deps[1]))) > 1
     /\ \A i \in 1..Len(Selected(Deps[1])) :
            /\ Selected(Deps[1])[i] \in DOMAIN question.Choices.entries
            /\ question.Choices.entries[Selected(Deps[1])[i]].kind = "map"
     /\ SingleValued(Deps[2]) \/ MultiValued(Deps[2])) =>
        /\ choices.err = NoErr
        /\ \A n \in 1..Len(choices.val) :
               \E i \in 1..Len(Selected(Deps[1])), j \in 1..Len(Selected(Deps[2])) :
                   LET inner == question.Choices.entries[Selected(Deps[1])[i]].entries
                       v == Selected(Deps[2])[j] IN
                   /\ v \in DOMAIN inner
                   /\ inner[v].kind = "list"
                   /\ \E k \in 1..Len(inner[v].items) : choices.val[n] = Sprintf(inner[v].items[k])

\* C11: for a question whose choices are a flat sequence, the result is every
\* declared choice in its string form, in declared order, whatever the answers
\* so far are (none included).
C11_FlatChoicesVerbatim ==
    (Resolved /\ question.Choices.kind = "list") =>
        LET items == question.Choices.items IN
        /\ choices.err = NoErr
        /\ Len(choices.val) = Len(items)
        /\ \A i \in 1..Len(items) :
               choices.val[i] = IF items[i].kind = "int" THEN <<ToString(items[i].val)>>
                                ELSE items[i].val

\* [http, 80, http] resolved to "http", "80", "http" although region has an answer.
C11_Witness ==
    /\ Resolved
    /\ question = PortQuestion
    /\ DOMAIN answers = {"region"}
    /\ choices = Ok(<<<<"http">>, <<"80">>, <<"http">>>>)

\* C12: when a question listed in dependency_questions has no answer, the
\* result over a dependency-keyed mapping is an error, never a list.
C12_MissingDependencyIsError ==
    (/\ Resolved
     /\ question.Choices.kind = "map"
     /\ \E d \in 1..Len(Deps) : Deps[d] \notin DOMAIN answers) =>
        choices.err # NoErr

\* The level of the mapping that the d-th dependency is looked up in, when the
\* dependencies before it are single-valued and lead through nested mappings.
RECURSIVE LevelAt(_, _, _)
LevelAt(node, i, d) ==
    IF i = d THEN node
    ELSE IF /\ node.kind = "map"
            /\ SingleValued(Deps[i])
            /\ Selected(Deps[i])[1] \in DOMAIN node.entries
    THEN LevelAt(node.entries[Selected(Deps[i])[1]], i + 1, d)
    ELSE [kind |-> "none"]

\* C13: a single-valued answer (a string or a one-element list) that is no key
\* of the mapping at the level of its dependency gives the error "no choices
\* found for <dependency> = <value>".
C13_UnmatchedSingleValueIsError ==
    \A d \in 1..Len(Deps) :
        (/\ Resolved
         /\ SingleValued(Deps[d])
         /\ LevelAt(question.Choices, 1, d).kind = "map"
         /\ Selected(Deps[d])[1] \notin DOMAIN LevelAt(question.Choices, 1, d).entries) =>
            choices.err = [msg |-> "no choices found", dep |-> Deps[d],
                           value |-> Selected(Deps[d])[1]]

\* region = west, env = [qa]: the error names env and qa.
C13_Witness ==
    /\ Resolved
    /\ question = NestedQuestion
    /\ answers = [k \in {"region", "env"} |->
                     IF k = "region" THEN Str(<<"west">>) ELSE StrList(<<<<"qa">>>>)]
    /\ choices.err = [msg |-> "no choices found", dep |-> "env", value |-> <<"qa">>]

\* C14: a dependency answer that is neither a string nor a list of strings
\* gives an error, whatever the keys of the mapping are.
C14_NonStringAnswerIsError ==
    (/\ Resolved
     /\ question.Choices.kind = "map"
     /\ Len(Deps) >= 1
     /\ Deps[1] \in DOMAIN answers
     /\ answers[Deps[1]].kind \notin {"string", "list"}) =>
        choices.err # NoErr

(***************************************************************************)
(* Claims about the template name and the multi-value answers              *)
(***************************************************************************)
Determined == pc = "determined"
TemplateKey == config.TemplateQuestion
IsString(k) == k \in DOMAIN answers /\ answers[k].kind = "string"
IsList(k) == k \in DOMAIN answers /\ answers[k].kind = "list"
MultipleKeys == {k \in DOMAIN config.Definitions : IsMultiple(config.Definitions[k])}
\* Every question has an answer of the type of its prompt.
AnswersWellTyped ==
    \A k \in DOMAIN config.Definitions : IF k \in MultipleKeys THEN IsList(k) ELSE IsString(k)
\* The first entry of the order that is a question with a single answer.
FirstSingle ==
    config.Order[CHOOSE i \in 1..Len(config.Order) :
                    /\ config.Order[i] \notin MultipleKeys
                    /\ \A j \in 1..(i - 1) : config.Order[j] \in MultipleKeys]

\* C15 as stated: with template_question set, the result is the answer of that
\* key, and an error exactly when the key has no answer or its answer is no string.
C15_TemplateQuestionAnswerReturned ==
    (Determined /\ TemplateKey # "") =>
        IF IsString(TemplateKey)
        THEN err = "" /\ templateType = answers[TemplateKey].val
        ELSE err # ""

\* C15, amended: with template_question set, the result is the answer of that
\* key when it is a non-empty string, whatever the order, and an error when the
\* key has no answer, its answer is no string, or its answer is the empty string.
C15_TemplateQuestionDecides ==
    (Determined /\ TemplateKey # "") =>
        IF TemplateKey \notin DOMAIN answers
        THEN err = "template question not answered"
        ELSE IF ~IsString(TemplateKey)
        THEN err = "template question must have a single string answer"
        ELSE IF answers[TemplateKey].val = <<>>
        THEN err = "no suitable template type found in answers"
        ELSE err = "" /\ templateType = answers[TemplateKey].val

\* template_question = appName while app comes first: the name is the answer of appName.
C15_Witness ==
    /\ Determined
    /\ TemplateKey = "appName"
    /\ config.Order[1] = "app"
    /\ IsString("app") /\ answers["app"].val = <<"app">>
    /\ err = ""
    /\ templateType = <<"appName">>

\* C16: with template_question not set and every question answered, a
\* successful call returns the answer of the first question in order that is
\* not multiple, never that of a later one.
C16_FirstSingleQuestionDecides ==
    (Determined /\ TemplateKey = "" /\ AnswersWellTyped /\ err = "") =>
        templateType = answers[FirstSingle].val

Collected == pc = "collected"

Loaded == pc = "loaded" /\ err = ""
\* The document that was loaded: the first file that is there.
LoadedDocument ==
    files[CHOOSE i \in 1..Len(files) :
             files[i].kind # "none" /\ \A j \in 1..(i - 1) : files[j].kind = "none"]
IsLegacy(doc) == ~doc.hasDefinitions /\ doc.order = <<>> /\ DOMAIN doc.inline # {}
\* The canonical documents with the question content of a legacy document:
\* the same questions under definitions, the order left out or listing them.
CanonicalOf(doc) ==
    {Document(o, doc.template_question, TRUE, doc.inline, EmptyMap) :
        o \in {<<>>} \cup Orders(DOMAIN doc.inline)}

\* C19: a legacy inline-map document and a canonical order/definitions
\* document with the same questions normalize to equivalent graphs: the same
\* definitions, an order over the same set of keys, and no inline map left.
C19_LegacyAndCanonicalAgree ==
    (Loaded /\ IsLegacy(LoadedDocument)) =>
        \A doc \in CanonicalOf(LoadedDocument) :
            \A ks \in Orders(DOMAIN BaseDefinitions) :
                LET canonical == normalize(Unmarshal(doc), ks) IN
                /\ config.Definitions = canonical.Definitions
                /\ config.Definitions = LoadedDocument.inline
                /\ ToSet(config.Order) = ToSet(canonical.Order)
                /\ ToSet(config.Order) = DOMAIN config.Definitions
                /\ Len(config.Order) = Len(canonical.Order)
                /\ config.DirectMapNil /\ DOMAIN config.DirectMap = {}
                /\ canonical.DirectMapNil /\ DOMAIN canonical.DirectMap = {}

\* The legacy document with app, env and cluster gave the three definitions
\* and the order env, cluster, app.
C19_Witness ==
    /\ Loaded
    /\ IsLegacy(LoadedDocument)
    /\ config.Definitions = BaseDefinitions
    /\ config.Order = <<"env", "cluster", "app">>
    /\ config.DirectMapNil

\* C20: a load fails with an error or yields a graph whose order and
\* definitions are not empty; it fails when the document has neither
\* definitions nor an inline map.
C20_LoadedGraphIsNonEmpty ==
    (pc = "loaded") =>
        \/ err # ""
        \/ Len(config.Order) > 0 /\ DOMAIN config.Definitions # {}

(***************************************************************************)
(* Further claims about the loader, the resolver and the expander          *)
(***************************************************************************)
\* C21: in every loaded graph that has definitions, the keys in order are the
\* keys of definitions, each listed once, whether the order was given or
\* synthesized.
C21_OrderMatchesDefinitions ==
    (Loaded /\ DOMAIN config.Definitions # {}) =>
        /\ ToSet(config.Order) = DOMAIN config.Definitions
        /\ Len(config.Order) = Cardinality(DOMAIN config.Definitions)

\* C28: over a dependency-keyed mapping GetChoices returns a list or an error
\* for every dependency answer, the empty list included; it never panics.
C28_GetChoicesNeverPanics ==
    (Resolved /\ question.Choices.kind = "map") => choices # Panic

\* C29: every key of every Combination is a key of the base answers or the key
\* of a defined question, also when a selected value of a question without a
\* dynamic type contains ": ".
C29_CombinationKeysAreKnown ==
    Expanded =>
        \A n \in 1..Len(combinations) :
            DOMAIN combinations[n] \subseteq (DOMAIN answers) \cup (DOMAIN config.Definitions)

(***************************************************************************)
(* Claims about rendering                                                  *)
(***************************************************************************)
\* The members of the directory template that a render includes.
Included ==
    {m \in DOMAIN tmpl.Files :
        \/ tmpl.Files[m].Enabled = <<>>
        \/ renderTemplate(tmpl.Files[m].Enabled, combinations[1]) = Rendered(<<"true">>)}
MemberFile(m) ==
    RenderedFile(renderTemplate(tmpl.BasePath, combinations[1]).val,
                 renderTemplate(tmpl.Files[m].Filename, combinations[1]).val,
                 renderTemplate(tmpl.Files[m].Content, combinations[1]).val)

\* C24: a successful render of a directory template holds exactly one file
\* for each member without an enable-condition or whose condition renders to
\* "true", none for any other member, and every file has the rendered base path.
C24_DirectoryRendersIncludedMembers ==
    (pc = "rendered" /\ tmpl.Type = "directory" /\ rendered.err = "") =>
        /\ Len(rendered.Files) = Cardinality(Included)
        /\ \A m \in Included :
               Cardinality({i \in 1..Len(rendered.Files) : rendered.Files[i] = MemberFile(m)}) = 1
        /\ \A i \in 1..Len(rendered.Files) :
               /\ \E m \in Included : rendered.Files[i] = MemberFile(m)
               /\ rendered.Files[i].Path = renderTemplate(tmpl.BasePath, combinations[1]).val

\* a.yaml has no condition and b.yaml one that renders to "true " : only
\* a.yaml was rendered, under out/dev.
C24_Witness ==
    /\ pc = "rendered" /\ tmpl.Type = "directory" /\ rendered.err = ""
    /\ DOMAIN tmpl.Files = MemberNames
    /\ tmpl.Files["a.yaml"].Enabled = <<>>
    /\ tmpl.Files["b.yaml"].Enabled = <<Lit("true"), Lit(" ")>>
    /\ rendered.Files = <<RenderedFile(<<"out/", "dev">>, <<"a.yaml">>, <<"kind: ", "job">>)>>


\* ---- interactive collection --------------------------------------------
\* The run is interactive and has entered the loop over the questions.
InteractiveRun == ~options.SkipPrompt /\ pc \notin {"cli", "run"}
Supplied == DOMAIN options.Answers
IsPrompted(k) == k \notin Supplied
\* The questions among the first n of the order that have to be prompted.
ToPrompt(n) == SelectSeq(SubSeq(config.Order, 1, n), IsPrompted)
PromptedKeys == [i \in 1..Len(prompted) |-> prompted[i].key]
\* The answers that are there when prompt i is made: the supplied ones and
\* those of the prompts before it, as they are stored now.
AnswersBefore(i) ==
    [k \in Supplied \cup {prompted[j].key : j \in 1..(i - 1)} |-> answers[k]]

\* C23: in an interactive run the questions are handled in the order of the
\* graph: a supplied answer is never prompted and keeps its value, every
\* other question handled so far has been prompted exactly once, and each
\* prompt had its choices resolved from exactly the supplied answers and the
\* stored answers of the prompts before it.
C23_PromptsFollowOrder ==
    InteractiveRun =>
        /\ \/ PromptedKeys = ToPrompt(asked)
           \/ /\ pc = "failed"
              /\ asked < Len(config.Order)
              /\ PromptedKeys = ToPrompt(asked + 1)
        /\ pc # "exited" => Supplied \subseteq DOMAIN answers
        /\ \A k \in Supplied \cap DOMAIN answers : answers[k] = options.Answers[k]
        /\ \A i \in 1..Len(prompted) : prompted[i].answers = AnswersBefore(i)
        /\ pc \in {"collected", "confirm", "generate", "writing", "done"}
              => asked = Len(config.Order)

\* An interactive run with a supplied answer has prompted two questions and
\* has collected every answer.
C23_Witness ==
    /\ InteractiveRun
    /\ pc = "collected"
    /\ Supplied # {}
    /\ Len(prompted) >= 2

\* ---- skip-prompt mode ----------------------------------------------------
\* The options lack the answers map or the answer of a defined question.
IncompleteOptions ==
    \/ options.AnswersNil
    \/ \E questionKey \in DOMAIN GetQuestions(config) : questionKey \notin DOMAIN options.Answers

\* C25: with SkipPrompt no question and no confirmation is ever prompted,
\* and when the answers map is missing or a defined question has no supplied
\* answer, RunWithOptions returns an error before any preview is computed
\* or shown and without a file written.
C25_SkipModeValidates ==
    options.SkipPrompt =>
        /\ prompted = <<>>
        /\ confirms = <<>>
        /\ IncompleteOptions =>
              /\ pc \in {"run", "failed", "exited"}
              /\ pc = "failed" => err # ""
              /\ ~previewed.done
              /\ evals = 0
              /\ written = <<>>

\* A run with --yes that lacks the answer of a question has returned.
C25_Witness ==
    /\ options.SkipPrompt
    /\ ~options.AnswersNil
    /\ IncompleteOptions
    /\ pc = "failed"

\* ---- preview and confirmation --------------------------------------------
\* generateFiles has been entered: it computes, renders or has written.
Generating == pc \in {"generate", "writing"} \/ Len(queue) > 0 \/ Len(written) > 0
PreviewFailed == previewed.done /\ previewed.err # ""
Declined == \E i \in 1..Len(confirms) : confirms[i] = "no"

\* C26: generateFiles is entered, and a file is written, only after
\* generatePreview has rendered every combination without an error and, in
\* an interactive run, after the one confirmation was given; when the
\* preview fails the run returns an error with no file written, and when the
\* user declines it returns without an error and with no file written.
C26_NoFileBeforePreviewAndConfirmation ==
    /\ Generating =>
          /\ previewed.done
          /\ previewed.err = ""
          /\ ~options.SkipPrompt => confirms = <<"yes">>
    /\ PreviewFailed => pc = "failed" /\ err # "" /\ Len(written) = 0
    /\ Declined => pc = "done" /\ err = "" /\ Len(written) = 0

\* An interactive run has written a file after the confirmation.
C26_Witness ==
    /\ ~options.SkipPrompt
    /\ confirms = <<"yes">>
    /\ Len(written) > 0

\* ---- cancellation --------------------------------------------------------
\* C22: once the cancellation signal has been observed, no step of
\* RunWithOptions asks a further question or writes a further file.
C22_NothingAfterCancel ==
    [][canceled => (prompted' = prompted /\ written' = written)]_vars

\* ---- preview against generation ------------------------------------------
\* RunWithOptions has returned nil after generateFiles.
Generated == pc = "done" /\ (options.SkipPrompt \/ confirms = <<"yes">>)

\* C27: when a run has generated its files, the set of (path, filename,
\* content) that generateFiles has written equals the set that
\* generatePreview has shown.
C27_WrittenEqualsPreviewed ==
    Generated => ToSet(written) = ToSet(previewed.Files)

\* C30: when RunWithOptions returns without an error after the confirmation
\* or in skip-prompt mode, at least one combination was rendered and written.
C30_SuccessWritesSomething ==
    Generated => Len(written) > 0
====
